---- MODULE Spec2Model ----
(***************************************************************************)
(* Model of missingno/utils.py: nullity_sort and nullity_filter.           *)
(*                                                                         *)
(* A DataFrame is a record [index, columns, values]: the row labels, the   *)
(* column labels and the cells, values[i][j] being the cell of row         *)
(* position i and column position j.  A cell is NaN or a value; the value  *)
(* of the cell created at row r and column c is CellId(r, c), so that any  *)
(* cell that moves, is lost or is duplicated can be told apart.            *)
(*                                                                         *)
(* np.argsort is called with its default kind ("quicksort"), which numpy   *)
(* documents as not stable: the order it gives to equal counts depends on  *)
(* the numpy build (introsort, AVX2/AVX-512 sorting networks) and on the   *)
(* array length.  Argsort is therefore the set of all permutations that    *)
(* sort the counts, and each call takes one of them.                       *)
(***************************************************************************)
EXTENDS Integers, Sequences, FiniteSets, TLC

VARIABLES df, call, result, status, error, warnings

vars == <<df, call, result, status, error, warnings>>

(* ------------------------------ bounds -------------------------------- *)

MaxRows == 3

MaxCols == 4

MaxCells == 6

PDen == 4

(* --------------------------- the DataFrame ---------------------------- *)

NaN == 0

None == "None"

ColNames == <<"A", "B", "C", "D", "E", "F">>

CellId(r, c) == 10 * r + c

NRows(t) == Len(t.index)

NCols(t) == Len(t.columns)

MkTable(r, c, mask) ==
  [index   |-> [i \in 1..r |-> i],
   columns |-> [j \in 1..c |-> ColNames[j]],
   values  |-> [i \in 1..r |-> [j \in 1..c |->
                  IF mask[i][j] THEN CellId(i, j) ELSE NaN]]]

\* The table of the documented example: 4 rows, columns A, B, C, D holding
\* 4, 2, 1 and 4 values.
ScenarioCounts == <<4, 2, 1, 4>>

ScenarioTable ==
  MkTable(4, 4, [i \in 1..4 |-> [j \in 1..4 |-> i <= ScenarioCounts[j]]])

Shapes ==
  {s \in (0..MaxRows) \X (0..MaxCols) : s[1] * s[2] <= MaxCells}

Tables ==
  UNION {{MkTable(s[1], s[2], m) : m \in [1..s[1] -> [1..s[2] -> BOOLEAN]]}
         : s \in Shapes}
  \cup {ScenarioTable}

(* ------------------- pandas / numpy primitives used ------------------- *)

Min(a, b) == IF a <= b THEN a ELSE b

Max(a, b) == IF a >= b THEN a ELSE b

\* df.count(axis=...).values: axis "columns" reduces along the columns and
\* gives one count per row; axis "index" gives one count per column.
Count(t, axis) ==
  IF axis = "columns"
  THEN [i \in 1..NRows(t) |->
          Cardinality({j \in 1..NCols(t) : t.values[i][j] # NaN})]
  ELSE [j \in 1..NCols(t) |->
          Cardinality({i \in 1..NRows(t) : t.values[i][j] # NaN})]

Perms(n) ==
  {f \in [1..n -> 1..n] : \A i, j \in 1..n : f[i] = f[j] => i = j}

\* Argsort with the comparison inverted: the counts come out non-increasing.
Argsort_Inverted(a) ==
  {f \in Perms(Len(a)) :
     \A i, j \in 1..Len(a) : i < j => a[f[i]] >= a[f[j]]}

\* np.argsort(a), default kind: every permutation that puts a in
\* non-decreasing order is a possible outcome.
Argsort(a) ==
  {f \in Perms(Len(a)) :
     \A i, j \in 1..Len(a) : i < j => a[f[i]] <= a[f[j]]}

\* Flipud left out: the array comes back as it went in.
Flipud_Omitted(s) == s

\* np.flipud on a one-dimensional array: the reversal.
Flipud(s) == [i \in 1..Len(s) |-> s[Len(s) + 1 - i]]

\* np.sort left out: the positions stay in ranking order.
NpSort_Omitted(s) == s

\* np.sort on an array of positions.
NpSort(s) == SortSeq(s, LAMBDA a, b : a < b)

\* s[:n] taken where s[-n:] is meant.
LastN_FromFront(s, n) == SubSeq(s, 1, Min(n, Len(s)))

\* s[-n:]
LastN(s, n) ==
  LET start == IF n > 0 THEN Max(Len(s) - n, 0) ELSE Min(-n, Len(s))
  IN  SubSeq(s, start + 1, Len(s))

\* s[:n]
FirstN(s, n) ==
  LET stop == IF n >= 0 THEN Min(n, Len(s)) ELSE Max(Len(s) + n, 0)
  IN  SubSeq(s, 1, stop)

\* df.iloc[pos, :]
ILocRows(t, pos) ==
  [index   |-> [i \in 1..Len(pos) |-> t.index[pos[i]]],
   columns |-> t.columns,
   values  |-> [i \in 1..Len(pos) |-> t.values[pos[i]]]]

\* A column selection that moves the labels and leaves the cells in place.
ILocCols_LabelsOnly(t, pos) ==
  [index   |-> t.index,
   columns |-> [j \in 1..Len(pos) |-> t.columns[pos[j]]],
   values  |-> [i \in 1..NRows(t) |->
                  [j \in 1..Len(pos) |-> t.values[i][j]]]]

\* df.iloc[:, pos]
ILocCols(t, pos) ==
  [index   |-> t.index,
   columns |-> [j \in 1..Len(pos) |-> t.columns[pos[j]]],
   values  |-> [i \in 1..NRows(t) |->
                  [j \in 1..Len(pos) |-> t.values[i][pos[j]]]]]

\* The positions a boolean list selects, in increasing order.
MaskPositions(mask) ==
  LET sel == {j \in 1..Len(mask) : mask[j]}
      rank(j) == Cardinality({k \in sel : k <= j})
  IN  [r \in 1..Cardinality(sel) |-> CHOOSE j \in sel : rank(j) = r]

\* df.iloc[:, mask] with a boolean list
ILocMask(t, mask) == ILocCols(t, MaskPositions(mask))

\* c > p where c >= p is meant.
RatioGE_Strict(cnt, len, pnum) == len # 0 /\ cnt * PDen > pnum * len

\* c >= p for c = count / len(df) and p = pnum / PDen.  With no rows the
\* quotient 0 / 0 is nan, and every comparison with nan is False.
RatioGE(cnt, len, pnum) == len # 0 /\ cnt * PDen >= pnum * len

\* c <= p, likewise.
RatioLE(cnt, len, pnum) == len # 0 /\ cnt * PDen <= pnum * len

(* ---------------------------- nullity_sort ---------------------------- *)

NoTable == [index |-> <<>>, columns |-> <<>>, values |-> <<>>]

Raise(w) ==
  [status |-> "raised", error |-> "ValueError", warnings |-> w,
   result |-> NoTable]

Return(t, w) ==
  [status |-> "returned", error |-> None, warnings |-> w, result |-> t]

ValidSort(sort) == sort \in {"ascending", "descending"}

\* The number of DeprecationWarnings the axis argument makes the call emit.
AxisWarnings(axis) == IF axis = "rows" THEN 1 ELSE 0

\* The deprecated alias normalized to the other axis.
NormalizeAxis_ToColumns(axis) == IF axis = "rows" THEN "columns" ELSE axis

NormalizeAxis(axis) == IF axis = "rows" THEN "index" ELSE axis

\* The axis check left out.
ValidAxis_Unchecked(axis) == TRUE

ValidAxis(axis) == axis \in {"index", "columns"}

Direction(sort, perm) == IF sort = "ascending" THEN perm ELSE Flipud(perm)

\* The two axis branches exchanged: "columns" reorders the columns by column
\* count, "index" the rows by row count.
NullitySortReturn_AxesExchanged(t, sort, axis) ==
  IF axis = "columns"
  THEN {ILocCols(t, Direction(sort, f)) : f \in Argsort(Count(t, "index"))}
  ELSE {ILocRows(t, Direction(sort, f)) : f \in Argsort(Count(t, "columns"))}

\* The tables the sorting branches can return, for a valid sort and axis.
NullitySortReturn(t, sort, axis) ==
  IF axis = "columns"
  THEN {ILocRows(t, Direction(sort, f)) : f \in Argsort(Count(t, "columns"))}
  ELSE {ILocCols(t, Direction(sort, f)) : f \in Argsort(Count(t, "index"))}

\* nullity_sort with the axis validated before the direction is looked at.
NullitySortOutcomes_AxisFirst(t, sort, axis) ==
  IF ~ValidAxis(NormalizeAxis(axis)) THEN {Raise(AxisWarnings(axis))}
  ELSE IF sort = None THEN {Return(t, AxisWarnings(axis))}
  ELSE IF ~ValidSort(sort) THEN {Raise(AxisWarnings(axis))}
  ELSE {Return(r, AxisWarnings(axis)) :
          r \in NullitySortReturn(t, sort, NormalizeAxis(axis))}

\* Every outcome of nullity_sort(t, sort, axis).
NullitySortOutcomes(t, sort, axis) ==
  IF sort = None THEN {Return(t, 0)}
  ELSE IF ~ValidSort(sort) THEN {Raise(0)}
  ELSE IF ~ValidAxis(NormalizeAxis(axis)) THEN {Raise(AxisWarnings(axis))}
  ELSE {Return(r, AxisWarnings(axis)) :
          r \in NullitySortReturn(t, sort, NormalizeAxis(axis))}

(* --------------------------- nullity_filter --------------------------- *)

TopP(t, pnum) ==
  ILocMask(t, [j \in 1..NCols(t) |->
                 RatioGE(Count(t, "index")[j], NRows(t), pnum)])

BottomP(t, pnum) ==
  ILocMask(t, [j \in 1..NCols(t) |->
                 RatioLE(Count(t, "index")[j], NRows(t), pnum)])

TopN(t, n) ==
  {ILocCols(t, NpSort(LastN(f, n))) : f \in Argsort(Count(t, "index"))}

BottomN(t, n) ==
  {ILocCols(t, NpSort(FirstN(f, n))) : f \in Argsort(Count(t, "index"))}

\* Every table nullity_filter(t, filter, p, n) can return.
NullityFilterReturn(t, filter, pnum, n) ==
  IF filter = "top" THEN
    LET t1 == IF pnum # 0 THEN TopP(t, pnum) ELSE t
    IN  IF n # 0 THEN TopN(t1, n) ELSE {t1}
  ELSE IF filter = "bottom" THEN
    LET t1 == IF pnum # 0 THEN BottomP(t, pnum) ELSE t
    IN  IF n # 0 THEN BottomN(t1, n) ELSE {t1}
  ELSE {t}

(* --------------------------- the state machine ------------------------ *)

SortArgs == {None, "ascending", "descending", "sideways"}

AxisArgs == {"index", "columns", "rows", "diagonal"}

FilterArgs == {None, "top", "bottom", "middle"}

PArgs == 0..PDen

NArgs == 0..(MaxCols + 1)

NoCall ==
  [fn |-> "none", sort |-> None, axis |-> None, filter |-> None,
   p |-> 0, n |-> 0]

Init ==
  /\ df \in Tables
  /\ call = NoCall
  /\ result = NoTable
  /\ status = "ready"
  /\ error = None
  /\ warnings = 0

NullitySort(sort, axis) ==
  /\ status = "ready"
  /\ \E o \in NullitySortOutcomes(df, sort, axis) :
       /\ result' = o.result
       /\ status' = o.status
       /\ error' = o.error
       /\ warnings' = o.warnings
  /\ call' = [NoCall EXCEPT !.fn = "sort", !.sort = sort, !.axis = axis]
  /\ UNCHANGED df

NullityFilter(filter, pnum, n) ==
  /\ status = "ready"
  /\ result' \in NullityFilterReturn(df, filter, pnum, n)
  /\ status' = "returned"
  /\ call' = [NoCall EXCEPT !.fn = "filter", !.filter = filter,
                            !.p = pnum, !.n = n]
  /\ UNCHANGED <<df, error, warnings>>

Next ==
  \/ \E sort \in SortArgs, axis \in AxisArgs : NullitySort(sort, axis)
  \/ \E filter \in FilterArgs, pnum \in PArgs, n \in NArgs :
       NullityFilter(filter, pnum, n)

Spec == Init /\ [][Next]_vars

(* ------------------------ vocabulary of the claims -------------------- *)

SortCall == call.fn = "sort"

FilterCall == call.fn = "filter"

\* nullity_sort was called with a direction and returned a table.
Sorted == SortCall /\ ValidSort(call.sort) /\ status = "returned"

Positions(s, x) == {k \in 1..Len(s) : s[k] = x}

\* s holds exactly the elements of t, each once (t has no duplicates).
IsPermOf(s, t) ==
  /\ Len(s) = Len(t)
  /\ \A i \in 1..Len(t) : Cardinality(Positions(s, t[i])) = 1

\* s is t with some elements left out: same relative order, no duplicates.
IsSubseqOf(s, t) ==
  /\ \A k \in 1..Len(s) : Cardinality(Positions(t, s[k])) = 1
  /\ \A k, l \in 1..Len(s) :
       k < l => (CHOOSE i \in Positions(t, s[k]) : TRUE)
                  < (CHOOSE i \in Positions(t, s[l]) : TRUE)

PosOf(s, x) == CHOOSE k \in Positions(s, x) : TRUE

WellShaped(t) ==
  /\ Len(t.values) = NRows(t)
  /\ \A i \in 1..NRows(t) : Len(t.values[i]) = NCols(t)

\* Every cell of r is the cell t holds under the same row and column label.
SameCells(r, t) ==
  /\ WellShaped(r)
  /\ \A i \in 1..NRows(r) : Positions(t.index, r.index[i]) # {}
  /\ \A j \in 1..NCols(r) : Positions(t.columns, r.columns[j]) # {}
  /\ \A i \in 1..NRows(r), j \in 1..NCols(r) :
       r.values[i][j]
         = t.values[PosOf(t.index, r.index[i])][PosOf(t.columns, r.columns[j])]

NonDecreasing(a) == \A i, j \in 1..Len(a) : i < j => a[i] <= a[j]

NonIncreasing(a) == \A i, j \in 1..Len(a) : i < j => a[i] >= a[j]

Ordered(a, sort) ==
  IF sort = "ascending" THEN NonDecreasing(a) ELSE NonIncreasing(a)

\* The table is as it was built: nothing in it was moved or overwritten.
Pristine(t) ==
  /\ WellShaped(t)
  /\ t.index = [i \in 1..NRows(t) |-> i]
  /\ t.columns = [j \in 1..NCols(t) |-> ColNames[j]]
  /\ \A i \in 1..NRows(t), j \in 1..NCols(t) :
       t.values[i][j] \in {NaN, CellId(i, j)}

ColumnCount(t, label) == Count(t, "index")[PosOf(t.columns, label)]

(* -------------------------------- C1 ---------------------------------- *)

\* C1 (as amended): when a direction is given, axis = "columns" permutes the
\* ROWS, ordered by each row's count of non-missing cells, and leaves the
\* column order untouched; axis = "index" permutes the COLUMNS, ordered by
\* each column's count of non-missing cells, and leaves the row order
\* untouched.
C1_AxisPermutes ==
  Sorted =>
    /\ call.axis = "columns" =>
         /\ result.columns = df.columns
         /\ IsPermOf(result.index, df.index)
         /\ SameCells(result, df)
         /\ Ordered(Count(result, "columns"), call.sort)
    /\ call.axis = "index" =>
         /\ result.index = df.index
         /\ IsPermOf(result.columns, df.columns)
         /\ SameCells(result, df)
         /\ Ordered(Count(result, "index"), call.sort)

Distinct(a) == \A i, j \in 1..Len(a) : a[i] = a[j] => i = j

\* C1 as stated: axis = "columns" permutes the columns by column count and
\* leaves the rows, axis = "index" permutes the rows by row count and leaves
\* the columns.  Stated for the tables in which no two rows and no two
\* columns hold the same number of values, where there is one sorted order.
C1_AsStated ==
  (Sorted /\ Distinct(Count(df, "columns")) /\ Distinct(Count(df, "index"))) =>
    /\ call.axis = "columns" =>
         /\ result.index = df.index
         /\ IsPermOf(result.columns, df.columns)
         /\ Ordered(Count(result, "index"), call.sort)
    /\ call.axis = "index" =>
         /\ result.columns = df.columns
         /\ IsPermOf(result.index, df.index)
         /\ Ordered(Count(result, "columns"), call.sort)

C1_Witness ==
  /\ Sorted
  /\ call.axis = "columns"
  /\ result.index # df.index
  /\ NCols(df) >= 2
  /\ \E j, k \in 1..NCols(df) : Count(df, "index")[j] < Count(df, "index")[k]

(* -------------------------------- C2 ---------------------------------- *)

\* C2: with no direction nullity_sort returns the table unchanged whatever
\* the axis (valid, deprecated or unrecognized), and with no mode
\* nullity_filter returns the table unchanged whatever p and n; neither
\* raises.
C2_Identity ==
  /\ (SortCall /\ call.sort = None) =>
       status = "returned" /\ error = None /\ result = df
  /\ (FilterCall /\ call.filter = None) =>
       status = "returned" /\ error = None /\ result = df

C2_Witness ==
  /\ SortCall
  /\ call.sort = None
  /\ call.axis = "diagonal"
  /\ status = "returned"
  /\ NRows(df) >= 2
  /\ NCols(df) >= 2

(* -------------------------------- C3 ---------------------------------- *)

IndexResults(t, sort) ==
  {o.result : o \in NullitySortOutcomes(t, sort, "index")}

\* C3 (as amended): with direction ascending or descending, a call with
\* axis = "rows" emits exactly one deprecation warning and returns a result
\* of the same call with axis = "index", which emits none; with no direction
\* the call with axis = "rows" returns the table unchanged, as with "index",
\* but emits no warning.
C3_RowsAlias ==
  SortCall =>
    /\ (call.axis = "rows" /\ ValidSort(call.sort)) =>
         /\ status = "returned"
         /\ warnings = 1
         /\ result \in IndexResults(df, call.sort)
    /\ (call.axis = "rows" /\ call.sort = None) =>
         /\ status = "returned"
         /\ warnings = 0
         /\ result \in IndexResults(df, call.sort)
    /\ call.axis = "index" => warnings = 0

\* C3 as stated: exactly one warning for every direction, the unspecified
\* one included.
C3_AsStated ==
  (SortCall /\ call.axis = "rows"
     /\ call.sort \in {"ascending", "descending", None}) =>
    /\ status = "returned"
    /\ warnings = 1
    /\ result \in IndexResults(df, call.sort)

C3_Witness ==
  /\ Sorted
  /\ call.axis = "rows"
  /\ warnings = 1
  /\ result.columns # df.columns

(* -------------------------------- C6 ---------------------------------- *)

\* C6 (as amended): for the 4-row table with columns [A, B, C, D] holding
\* 4, 2, 1 and 4 values, nullity_sort(T, "descending", "columns") leaves the
\* columns in the order [A, B, C, D] (it reorders the rows); with
\* axis = "index" the columns come out as [D, A, B, C] or [A, D, B, C].
C6_Scenario ==
  (Sorted /\ df = ScenarioTable /\ call.sort = "descending") =>
    /\ call.axis = "columns" => result.columns = <<"A", "B", "C", "D">>
    /\ call.axis = "index" =>
         result.columns \in {<<"D", "A", "B", "C">>, <<"A", "D", "B", "C">>}

\* C6 as stated: the columns come out as [C, B, D, A].
C6_AsStated ==
  (Sorted /\ df = ScenarioTable /\ call.sort = "descending"
     /\ call.axis = "columns") =>
    result.columns = <<"C", "B", "D", "A">>

C6_Witness ==
  /\ Sorted
  /\ df = ScenarioTable
  /\ call.sort = "descending"
  /\ call.axis = "index"
  /\ result.columns = <<"D", "A", "B", "C">>

(* -------------------------------- C7 ---------------------------------- *)

Raised == status = "raised" /\ error = "ValueError" /\ result = NoTable

\* C7 (as amended): nullity_sort fails with a ValueError and returns no
\* table whenever direction is supplied but is neither "ascending" nor
\* "descending", and, when direction is "ascending" or "descending",
\* whenever axis is none of "index", "columns" and "rows".
C7_InvalidArgument ==
  SortCall =>
    /\ (call.sort # None /\ call.sort \notin {"ascending", "descending"})
         => Raised
    /\ (call.sort \in {"ascending", "descending"}
          /\ call.axis \notin {"index", "columns", "rows"})
         => Raised

\* C7 as stated: an unrecognized axis fails whatever the direction.
C7_AsStated ==
  SortCall =>
    /\ (call.sort # None /\ call.sort \notin {"ascending", "descending"})
         => Raised
    /\ call.axis \notin {"index", "columns", "rows"} => Raised

C7_Witness ==
  /\ SortCall
  /\ call.sort = "ascending"
  /\ call.axis = "diagonal"
  /\ Raised
  /\ NRows(df) >= 1

(* -------------------------------- C8 ---------------------------------- *)

\* C8: when a direction is given and the axis is valid, the result has the
\* row count and the column count of T, its row labels and its column labels
\* are those of T, each once, every cell holds what T holds under the same
\* labels, one of the two axes is in T's order, and T is as it was.
C8_OnlyOrderChanges ==
  Sorted =>
    /\ NRows(result) = NRows(df)
    /\ NCols(result) = NCols(df)
    /\ IsPermOf(result.index, df.index)
    /\ IsPermOf(result.columns, df.columns)
    /\ SameCells(result, df)
    /\ result.index = df.index \/ result.columns = df.columns
    /\ Pristine(df)

C8_Witness ==
  /\ Sorted
  /\ result.columns # df.columns
  /\ \E i \in 1..NRows(df), j, k \in 1..NCols(df) :
       df.values[i][j] = NaN /\ df.values[i][k] # NaN

(* -------------------------------- C9 ---------------------------------- *)

\* The permutation the call applied: position k of the result holds the row
\* (axis "columns") or the column (axis "index") that T holds at Applied[k].
Applied ==
  IF call.axis = "columns"
  THEN [k \in 1..NRows(result) |-> PosOf(df.index, result.index[k])]
  ELSE [k \in 1..NCols(result) |-> PosOf(df.columns, result.columns[k])]

SortKeys == Count(df, IF call.axis = "columns" THEN "columns" ELSE "index")

SortsAscending(f, a) ==
  \A i, j \in 1..Len(f) : i < j => a[f[i]] <= a[f[j]]

StableAscending(f, a) ==
  \A i, j \in 1..Len(f) :
    i < j => (a[f[i]] < a[f[j]] \/ (a[f[i]] = a[f[j]] /\ f[i] < f[j]))

\* C9 (as amended): the ascending permutation sorts by non-missing count
\* (counts non-decreasing along the result), and the descending permutation
\* is the reversal of an ascending one (counts non-increasing); the order of
\* equal-count entries is that of np.argsort's default sort, which is not
\* stable, so it is not fixed in either direction.
C9_SortByCount ==
  Sorted =>
    /\ call.sort = "ascending" => SortsAscending(Applied, SortKeys)
    /\ call.sort = "descending" =>
         /\ SortsAscending(Flipud(Applied), SortKeys)
         /\ \E r \in NullitySortReturn(df, "ascending", NormalizeAxis(call.axis)) :
              IF call.axis = "columns"
              THEN result.index = Flipud(r.index)
              ELSE result.columns = Flipud(r.columns)

\* C9 as stated: the ascending permutation is the stable one, and the
\* descending permutation is the reversal of the stable one.  Stated for
\* the tables that hold a value in every row and in every column.
C9_AsStated ==
  (Sorted /\ \A i \in 1..Len(SortKeys) : SortKeys[i] > 0) =>
    /\ call.sort = "ascending" => StableAscending(Applied, SortKeys)
    /\ call.sort = "descending" => StableAscending(Flipud(Applied), SortKeys)

C9_Witness ==
  /\ Sorted
  /\ call.sort = "descending"
  /\ call.axis = "index"
  /\ \E i, j \in 1..Len(SortKeys) : i < j /\ SortKeys[i] = SortKeys[j]
  /\ \E i, j \in 1..Len(SortKeys) : SortKeys[i] < SortKeys[j]
  /\ result.columns # df.columns

(* ---------------------- vocabulary of the filter claims --------------- *)

Labels(t) == {t.columns[j] : j \in 1..NCols(t)}

\* The column's completeness ratio in T is at least p = pnum / PDen.
AtLeast(t, label, pnum) ==
  NRows(t) > 0 /\ ColumnCount(t, label) * PDen >= pnum * NRows(t)

\* The columns of T that are left once the p cut-off of mode "top" is done.
AfterTopP(t, pnum) ==
  IF pnum = 0 THEN Labels(t) ELSE {c \in Labels(t) : AtLeast(t, c, pnum)}

TopCall == FilterCall /\ call.filter = "top"

BottomCall == FilterCall /\ call.filter = "bottom"

(* -------------------------------- C4 ---------------------------------- *)

\* C4: with mode "top", non-zero p and non-zero n, at most n columns are
\* returned, every returned column has non-missing count / row count >= p,
\* and the number of returned columns is min(n, number of columns of T whose
\* ratio is >= p).
C4_TopComposition ==
  (TopCall /\ call.p # 0 /\ call.n # 0) =>
    /\ status = "returned"
    /\ NCols(result) <= call.n
    /\ \A c \in Labels(result) : c \in Labels(df) /\ AtLeast(df, c, call.p)
    /\ NCols(result)
         = Min(call.n, Cardinality({c \in Labels(df) : AtLeast(df, c, call.p)}))

C4_Witness ==
  /\ TopCall
  /\ call.p # 0
  /\ call.p # PDen
  /\ call.n # 0
  /\ Cardinality(AfterTopP(df, call.p)) > call.n
  /\ AfterTopP(df, call.p) # Labels(df)
  /\ NRows(df) >= 2

(* -------------------------------- C5 ---------------------------------- *)

\* C5: with mode "top" or "bottom" the returned columns are a subsequence
\* of T's columns (T's relative order, no column twice) and every row is
\* kept; with mode "bottom", p = 0 and 0 < n <= column count exactly n
\* columns are returned, each with a non-missing count <= that of every
\* dropped column; for columns A = 4, B = 2, C = 1, D = 4 of 4 rows and
\* n = 2 the result is [B, C].
C5_ColumnsSubsequence ==
  /\ (TopCall \/ BottomCall) =>
       /\ status = "returned"
       /\ IsSubseqOf(result.columns, df.columns)
       /\ result.index = df.index
       /\ SameCells(result, df)
  /\ (BottomCall /\ call.p = 0 /\ 0 < call.n /\ call.n <= NCols(df)) =>
       /\ NCols(result) = call.n
       /\ \A k \in Labels(result), d \in Labels(df) \ Labels(result) :
            ColumnCount(df, k) <= ColumnCount(df, d)
  /\ (BottomCall /\ call.p = 0 /\ call.n = 2 /\ df = ScenarioTable) =>
       result.columns = <<"B", "C">>

C5_Witness ==
  /\ BottomCall
  /\ call.p = 0
  /\ call.n = 2
  /\ df = ScenarioTable
  /\ result.columns = <<"B", "C">>

(* -------------------------------- C10 --------------------------------- *)

Kept == Labels(result)

Dropped == AfterTopP(df, call.p) \ Labels(result)

\* The n cap of mode "top" had columns to drop.
TopCapped ==
  /\ TopCall
  /\ 0 < call.n
  /\ call.n < Cardinality(AfterTopP(df, call.p))

\* C10 (as amended): with mode "top" and 0 < n < column count after the p
\* cut-off, exactly n of the columns left by the p cut-off are returned
\* (the cap is computed on the table that remains after the p cut-off, not
\* on the original one) and no dropped one has a higher non-missing count
\* than a kept one; which of the columns sharing the count at the cut-off
\* rank are kept is decided by np.argsort's default sort, which is not
\* stable, so it is not fixed.
C10_TopCap ==
  TopCapped =>
    /\ NCols(result) = call.n
    /\ Kept \subseteq AfterTopP(df, call.p)
    /\ \A k \in Kept, d \in Dropped : ColumnCount(df, k) >= ColumnCount(df, d)

\* C10 as stated: among the columns sharing the count at the cut-off rank
\* the dropped ones are the earliest in column order.  Stated for the calls
\* that give a p cut-off.
C10_AsStated ==
  (TopCapped /\ call.p # 0) =>
    /\ NCols(result) = call.n
    /\ Kept \subseteq AfterTopP(df, call.p)
    /\ \A k \in Kept, d \in Dropped :
         \/ ColumnCount(df, k) > ColumnCount(df, d)
         \/ /\ ColumnCount(df, k) = ColumnCount(df, d)
            /\ PosOf(df.columns, d) < PosOf(df.columns, k)

C10_Witness ==
  /\ TopCapped
  /\ call.p # 0
  /\ AfterTopP(df, call.p) # Labels(df)
  /\ \E k \in Kept, d \in Dropped : ColumnCount(df, k) = ColumnCount(df, d)
  /\ \E k \in Kept, d \in Dropped : ColumnCount(df, k) > ColumnCount(df, d)

====
